---- MODULE Spec2Model ----
(***************************************************************************)
(* Blackjack simulator: the round state machine of Game.Play, the moves,   *)
(* settlement (endRound) and the scoring primitives of package ai.         *)
(*                                                                         *)
(* A card is a number 1..52: rank ((c-1) % 13)+1 (Ace = 1 .. King = 13)    *)
(* and suit (c-1) \div 13.  A hand of cards is a sequence of cards, a      *)
(* player hand is a record [cards, bet], the shoe g.deck is a sequence     *)
(* drawn from the front.  g.handIdx is 0-based as in the source, so the    *)
(* active hand is player[handIdx + 1].                                     *)
(***************************************************************************)
EXTENDS Integers, Sequences, FiniteSets, TLC

VARIABLES
    nDecks, nHands, blackjackPayout,   \* Game configuration set by New
    deck, state, player, handIdx, playerBet, balance, dealer,  \* Game fields
    i, pc, panicMsg,                   \* Game.Play: loop counter, position, panic
    ai, shuffler,                      \* the strategy passed to Play, the deck provider
    calls, err, roundDeck, last,       \* observations of the current / last round
    drawn,                             \* the cards taken from the shoe in this round
    bi,                                \* the fields of the basicAI passed to Play
    hand, scored                       \* inputs and outputs of the scoring primitives

vars == <<nDecks, nHands, blackjackPayout, deck, state, player, handIdx,
          playerBet, balance, dealer, i, pc, panicMsg, ai, shuffler,
          calls, err, roundDeck, last, drawn, bi, hand, scored>>

gameVars == <<nDecks, nHands, blackjackPayout, deck, state, player, handIdx,
              playerBet, balance, dealer, i, pc, panicMsg, ai, shuffler,
              calls, err, roundDeck, last, drawn, bi>>

----------------------------------------------------------------------------
(* Bounds of the model *)

MaxDecks == 2          \* Options.Decks ranges over 1..MaxDecks
MaxHands == 2          \* Options.Hands of the runs with shuffled shoes
PrefixLen == 4         \* freely ordered cards at the front of a shuffled shoe
ShoeHands == 8         \* Options.Hands of the run on the scripted shoe
BasicHands == 40       \* Options.Hands of the runs of the shipped program
MaxScoreLen == 3       \* longest hand given to the scoring primitives

----------------------------------------------------------------------------
(* Cards *)

CardsPerDeck == 52
NumRanks == 13
Ace == 1
MinBet == 100

Cards == 1..CardsPerDeck
Rank(c) == ((c - 1) % NumRanks) + 1
Suit(c) == (c - 1) \div NumRanks
CardOf(rank, suit) == suit * NumRanks + rank

statePlayerTurn == 0
stateDealerTurn == 1
stateHandOver == 2

----------------------------------------------------------------------------
(* Scoring primitives *)

min(a, b) == IF a < b THEN a ELSE b

RECURSIVE minScore(_)
minScore(h) ==
    IF h = <<>> THEN 0
    ELSE min(Rank(Head(h)), 10) + minScore(Tail(h))

ScoreAceLate(h) ==
    LET m == minScore(h) IN
    IF m > 12 THEN m
    ELSE IF \E k \in DOMAIN h : Rank(h[k]) = Ace THEN m + 10
    ELSE m

Score(h) ==
    LET m == minScore(h) IN
    IF m > 11 THEN m
    ELSE IF \E k \in DOMAIN h : Rank(h[k]) = Ace THEN m + 10
    ELSE m

Soft(h) == minScore(h) # Score(h)

Blackjack(h) == Len(h) = 2 /\ Score(h) = 21

----------------------------------------------------------------------------
(* The deck provider: deck.New(deck.Deck(n), deck.Shuffle) returns the     *)
(* 52*n cards of n standard decks in some order.  The model lets the       *)
(* shuffle put PrefixLen different cards of PrefixCards first, in any order, *)
(* followed by the rest of the shoe from King of Hearts down to Ace of     *)
(* Spades ("family"), or return the one scripted order of a single deck    *)
(* ("scripted").  Every shoe of the model is a permutation of the real     *)
(* shoe.                                                                   *)

Count(s, c) == Cardinality({k \in DOMAIN s : s[k] = c})

RECURSIVE Repeat(_, _)
Repeat(c, k) == IF k <= 0 THEN <<>> ELSE <<c>> \o Repeat(c, k - 1)

RECURSIVE RestFrom(_, _, _)
RestFrom(c, prefix, n) ==
    IF c < 1 THEN <<>>
    ELSE Repeat(c, n - Count(prefix, c)) \o RestFrom(c - 1, prefix, n)

\* Ace, Six, Eight, King of Spades and Eight of Diamonds
PrefixCards == {CardOf(1, 0), CardOf(6, 0), CardOf(8, 0), CardOf(13, 0),
                CardOf(8, 1)}

Prefixes(n) ==
    {p \in [1..min(PrefixLen, Cardinality(PrefixCards)) -> PrefixCards] :
        \A c \in PrefixCards : Count(p, c) <= 1}

FamilyShoes(n) == {p \o RestFrom(CardsPerDeck, p, n) : p \in Prefixes(n)}

\* Ranks of the scripted single deck, front first; the k-th card of a rank
\* has suit k-1.
ScriptRanks ==
    <<1, 1, 13, 12,  7, 6, 7, 6,  1, 8, 1, 9,  8, 7, 8, 10,  13, 12, 9, 8,
      7, 11, 10, 9,  11, 12, 13, 10,  9, 11, 13, 11,  12, 10,
      2, 5, 2, 5,  2, 2,  3, 3, 3, 3, 4, 4,  4, 4, 5, 5,  6, 6>>

ScriptedShoe ==
    [k \in 1..Len(ScriptRanks) |->
        CardOf(ScriptRanks[k],
               Cardinality({j \in 1..(k - 1) : ScriptRanks[j] = ScriptRanks[k]}))]

\* the same prefixes followed by the rest of the shoe rank by rank, the Aces
\* first and the Kings last, each rank from Spades to Hearts ("ranked")
RECURSIVE RanksFrom(_, _, _)
RanksFrom(k, prefix, n) ==
    IF k >= CardsPerDeck THEN <<>>
    ELSE LET c == CardOf((k \div 4) + 1, k % 4) IN
         Repeat(c, n - Count(prefix, c)) \o RanksFrom(k + 1, prefix, n)

RankedShoes(n) == {p \o RanksFrom(0, p, n) : p \in Prefixes(n)}

Shoes(kind, n) ==
    IF kind = "scripted" THEN {ScriptedShoe}
    ELSE IF kind = "ranked" THEN RankedShoes(n)
    ELSE FamilyShoes(n)

\* draw: cards[0], cards[1:]; indexing an empty slice is a runtime panic
CanDraw(cards) == Len(cards) > 0
drawCard(cards) == Head(cards)
drawRest(cards) == Tail(cards)

IndexPanic == "index out of range"
BetPanic == "Bet must be at least 100"

----------------------------------------------------------------------------
(* The strategy passed to Game.Play.  "free" may return any amount of      *)
(* BetChoices from Bet, "flat" always bets the minimum; both may return    *)
(* any of the four moves from Play.                                        *)

BetChoices == {99, 100, 101}
Moves == {"Hit", "Stand", "Double", "Split"}

\* basicAI of package main, the strategy of the shipped program: main passes
\* Options{Decks: 4} and &basicAI{decks: 4}
BasicDecks == 4
DividePanic == "integer divide by zero"

\* Bet: the fields after the reset, the divisor, the amount
basicReset(b, shuffled) ==
    IF shuffled THEN [b EXCEPT !.score = 0, !.seen = 0] ELSE b

basicDivisor(b) ==
    IF b.decks * 52 - b.seen >= 0 THEN (b.decks * 52 - b.seen) \div 52
    ELSE 0 - ((b.seen - b.decks * 52) \div 52)

basicBet(b) ==
    LET d == basicDivisor(b)
        abs(n) == IF n >= 0 THEN n ELSE 0 - n
        q == abs(b.score) \div abs(d)
        trueScore == IF (b.score >= 0) = (d > 0) THEN q ELSE 0 - q
    IN  IF trueScore >= 14 THEN 100000
        ELSE IF trueScore >= 8 THEN 5000
        ELSE 100

basicPlayAnyPair(h, dealerCard) ==
    LET score == Score(h) IN
    IF Len(h) = 2 /\ Score(<<h[1]>>) >= 8 /\ Score(<<h[1]>>) # 10 THEN "Split"
    ELSE IF Len(h) = 2 /\ (score = 10 \/ (score = 11 /\ ~Soft(h))) THEN "Double"
    ELSE IF Score(<<dealerCard>>) >= 5 /\ Score(<<dealerCard>>) <= 6 THEN "Stand"
    ELSE IF score < 13 THEN "Hit"
    ELSE "Stand"

basicPlay(h, dealerCard) ==
    LET score == Score(h) IN
    IF Len(h) = 2 /\ h[1] = h[2] /\ Score(<<h[1]>>) >= 8 /\ Score(<<h[1]>>) # 10
    THEN "Split"
    ELSE IF Len(h) = 2 /\ (score = 10 \/ (score = 11 /\ ~Soft(h))) THEN "Double"
    ELSE IF Score(<<dealerCard>>) >= 5 /\ Score(<<dealerCard>>) <= 6 THEN "Stand"
    ELSE IF score < 13 THEN "Hit"
    ELSE "Stand"

countUnseen(b, card) == b

count(b, card) ==
    LET score == Score(<<card>>) IN
    [b EXCEPT !.score = IF score >= 10 THEN @ - 1
                        ELSE IF score <= 6 THEN @ + 1 ELSE @,
              !.seen = @ + 1]

RECURSIVE countAll(_, _)
countAll(b, cards) ==
    IF cards = <<>> THEN b ELSE countAll(count(b, Head(cards)), Tail(cards))

RECURSIVE countHands(_, _)
countHands(b, hands) ==
    IF hands = <<>> THEN b
    ELSE countHands(countAll(b, Head(hands)), Tail(hands))

basicResults(b, hands, dealerHand) == countHands(countAll(b, dealerHand), hands)

\* Bet divides by 0 when no whole deck is left unseen
aiBetFails(kind, shuffled) ==
    kind = "basic" /\ basicDivisor(basicReset(bi, shuffled)) = 0

aiBet(kind, shuffled) ==
    IF kind = "flat" THEN {MinBet}
    ELSE IF kind = "basic" THEN {basicBet(basicReset(bi, shuffled))}
    ELSE BetChoices

aiPlay(kind, h, dealerCard) ==
    IF kind = "basic" THEN {basicPlay(h, dealerCard)} ELSE Moves

aiResults(kind, hands, dealerHand) ==
    IF kind = "basic" THEN basicResults(bi, hands, dealerHand) ELSE bi

Call(op, arg, ret) ==
    [op |-> op, arg |-> arg, ret |-> ret, st |-> state, bal |-> balance]

----------------------------------------------------------------------------
(* New(opts): the defaults replace zero options.  blackjackPayout is kept  *)
(* as the exact fraction <<numerator, denominator>>.                       *)

New(opts) ==
    [nDecks |-> IF opts.Decks = 0 THEN 3 ELSE opts.Decks,
     nHands |-> IF opts.Hands = 0 THEN 100 ELSE opts.Hands,
     blackjackPayout |-> IF opts.BlackjackPayout[1] = 0 THEN <<3, 2>>
                         ELSE opts.BlackjackPayout]

NoRound == [player |-> <<>>, dealer |-> <<>>, before |-> 0, deck |-> 0]

InitGame(opts, strategy, provider) ==
    /\ nDecks = New(opts).nDecks
    /\ nHands = New(opts).nHands
    /\ blackjackPayout = New(opts).blackjackPayout
    /\ deck = <<>>
    /\ state = statePlayerTurn
    /\ player = <<>>
    /\ handIdx = 0
    /\ playerBet = 0
    /\ balance = 0
    /\ dealer = <<>>
    /\ i = 0
    /\ pc = "loop"
    /\ panicMsg = ""
    /\ ai = strategy
    /\ shuffler = provider
    /\ calls = <<>>
    /\ err = "nil"
    /\ roundDeck = 0
    /\ last = NoRound
    /\ drawn = <<>>
    /\ bi = [score |-> 0, seen |-> 0, decks |-> BasicDecks]
    /\ hand = <<>>
    /\ scored = [minScore |-> 0, Score |-> 0, Soft |-> FALSE, Blackjack |-> FALSE]

InitFamily ==
    \E d \in 1..MaxDecks, p \in {<<0, 1>>, <<2, 1>>} :
        InitGame([Decks |-> d, Hands |-> MaxHands, BlackjackPayout |-> p], "free", "family")

InitShoe ==
    InitGame([Decks |-> 1, Hands |-> ShoeHands, BlackjackPayout |-> <<3, 2>>],
             "flat", "scripted")

\* main: Options{Decks: 4, BlackjackPayout: 1.5} played by basicAI; Hands is
\* bounded by BasicHands
InitBasic ==
    \E provider \in {"family", "ranked"} :
        InitGame([Decks |-> BasicDecks, Hands |-> BasicHands,
                  BlackjackPayout |-> <<3, 2>>], "basic", provider)

----------------------------------------------------------------------------
(* Game.Play, top of the loop: the reshuffle check and bet(g, ai, shuffled) *)

reshuffleMinHalf == (CardsPerDeck * nDecks) \div 2

reshuffleMin == (CardsPerDeck * nDecks) \div 3

betClamped(amount) ==
    /\ playerBet' = IF amount < MinBet THEN MinBet ELSE amount
    /\ pc' = "deal"
    /\ panicMsg' = panicMsg

bet(amount) ==
    IF amount < MinBet
    THEN /\ pc' = "panic"
         /\ panicMsg' = BetPanic
         /\ playerBet' = playerBet
    ELSE /\ playerBet' = amount
         /\ pc' = "deal"
         /\ panicMsg' = panicMsg

StartRound ==
    /\ pc = "loop"
    /\ i < nHands
    /\ LET shuffled == Len(deck) < reshuffleMin IN
       \E d \in (IF shuffled THEN Shoes(shuffler, nDecks) ELSE {deck}) :
          /\ deck' = d
          /\ roundDeck' = Len(d)
          /\ IF aiBetFails(ai, shuffled)
             THEN /\ calls' = <<Call("Bet", shuffled, 0)>>
                  /\ bi' = basicReset(bi, shuffled)
                  /\ pc' = "panic"
                  /\ panicMsg' = DividePanic
                  /\ playerBet' = playerBet
             ELSE \E amount \in aiBet(ai, shuffled) :
                  /\ calls' = <<Call("Bet", shuffled, amount)>>
                  /\ bi' = IF ai = "basic" THEN basicReset(bi, shuffled) ELSE bi
                  /\ bet(amount)
    /\ err' = "nil"
    /\ last' = NoRound
    /\ drawn' = <<>>
    /\ UNCHANGED <<nDecks, nHands, blackjackPayout, state, player, handIdx,
                   balance, dealer, i, ai, shuffler, hand, scored>>

Return ==
    /\ pc = "loop"
    /\ i >= nHands
    /\ pc' = "done"
    /\ UNCHANGED <<nDecks, nHands, blackjackPayout, deck, state, player, handIdx,
                   playerBet, balance, dealer, i, panicMsg, ai, shuffler,
                   calls, err, roundDeck, last, drawn, bi, hand, scored>>

----------------------------------------------------------------------------
(* deal: player, dealer, player, dealer from the front of the shoe *)

Deal ==
    /\ pc = "deal"
    /\ handIdx' = 0
    /\ IF Len(deck) >= 4
       THEN /\ player' = <<[cards |-> <<deck[1], deck[3]>>, bet |-> playerBet]>>
            /\ dealer' = <<deck[2], deck[4]>>
            /\ deck' = SubSeq(deck, 5, Len(deck))
            /\ state' = statePlayerTurn
            /\ pc' = "check"
            /\ panicMsg' = panicMsg
       ELSE \* a draw indexes the empty shoe before g.player is assigned
            /\ player' = player
            /\ dealer' = IF Len(deck) >= 2 THEN <<deck[2]>> ELSE <<>>
            /\ deck' = <<>>
            /\ state' = state
            /\ pc' = "panic"
            /\ panicMsg' = IndexPanic
    /\ drawn' = SubSeq(deck, 1, Len(deck) - Len(deck'))
    /\ UNCHANGED <<nDecks, nHands, blackjackPayout, playerBet, balance, i, ai,
                   shuffler, calls, err, roundDeck, last, bi, hand, scored>>

----------------------------------------------------------------------------
(* Moves: functions from the game to the changed game and the error.  A    *)
(* draw from an empty shoe is reported as IndexPanic, the runtime panic.   *)

G == [deck |-> deck, state |-> state, player |-> player, handIdx |-> handIdx,
      playerBet |-> playerBet, dealer |-> dealer]

Out(g, e) == [g |-> g, err |-> e]

errSplitLen == "You can only split with two cards in your hand"
errSplitRank == "Both cards must have the same rank to split"
errDouble == "Can only double on a hand with 2 cards"
errState == "Invalid state"

currentHand(g) ==
    IF g.state = statePlayerTurn THEN g.player[g.handIdx + 1].cards ELSE g.dealer

setCurrentHandFirst(g, cards) ==
    IF g.state = statePlayerTurn
    THEN [g EXCEPT !.player[1].cards = cards]
    ELSE [g EXCEPT !.dealer = cards]

setCurrentHand(g, cards) ==
    IF g.state = statePlayerTurn
    THEN [g EXCEPT !.player[g.handIdx + 1].cards = cards]
    ELSE [g EXCEPT !.dealer = cards]

MoveHitNoBust(g) ==
    IF ~CanDraw(g.deck) THEN Out(g, IndexPanic)
    ELSE LET h == Append(currentHand(g), drawCard(g.deck))
         IN  Out([setCurrentHand(g, h) EXCEPT !.deck = drawRest(g.deck)], "nil")

MoveHit(g) ==
    IF ~CanDraw(g.deck) THEN Out(g, IndexPanic)
    ELSE LET h == Append(currentHand(g), drawCard(g.deck))
             g2 == [setCurrentHand(g, h) EXCEPT !.deck = drawRest(g.deck)]
         IN  Out(g2, IF Score(h) > 21 THEN "errBust" ELSE "nil")

MoveStandPastEnd(g) ==
    IF g.state = stateDealerTurn THEN Out([g EXCEPT !.state = @ + 1], "nil")
    ELSE IF g.state = statePlayerTurn
    THEN LET idx == g.handIdx + 1 IN
         Out([g EXCEPT !.handIdx = idx,
                       !.state = IF idx > Len(g.player) THEN @ + 1 ELSE @], "nil")
    ELSE Out(g, errState)

MoveStandAnyHand(g) ==
    IF g.state = stateDealerTurn THEN Out([g EXCEPT !.state = @ + 1], "nil")
    ELSE IF g.state = statePlayerTurn
    THEN Out([g EXCEPT !.handIdx = @ + 1, !.state = @ + 1], "nil")
    ELSE Out(g, errState)

MoveStandSkip(g) ==
    IF g.state = stateDealerTurn THEN Out([g EXCEPT !.state = @ + 1], "nil")
    ELSE IF g.state = statePlayerTurn
    THEN LET idx == g.handIdx + 2 IN
         Out([g EXCEPT !.handIdx = idx,
                       !.state = IF idx >= Len(g.player) THEN @ + 1 ELSE @], "nil")
    ELSE Out(g, errState)

MoveStand(g) ==
    IF g.state = stateDealerTurn THEN Out([g EXCEPT !.state = @ + 1], "nil")
    ELSE IF g.state = statePlayerTurn
    THEN LET idx == g.handIdx + 1 IN
         Out([g EXCEPT !.handIdx = idx,
                       !.state = IF idx >= Len(g.player) THEN @ + 1 ELSE @], "nil")
    ELSE Out(g, errState)

MoveSplitFirstCard(g) ==
    LET cards == currentHand(g) IN
    IF Len(cards) # 2 THEN Out(g, errSplitLen)
    ELSE IF Rank(cards[1]) # Rank(cards[2]) THEN Out(g, errSplitRank)
    ELSE Out([g EXCEPT
                !.player = Append([@ EXCEPT ![g.handIdx + 1].cards = <<cards[1]>>],
                                  [cards |-> <<cards[1]>>,
                                   bet |-> g.player[g.handIdx + 1].bet])],
             "nil")

MoveSplitKeep(g) ==
    LET cards == currentHand(g) IN
    IF Len(cards) # 2 THEN Out(g, errSplitLen)
    ELSE IF Rank(cards[1]) # Rank(cards[2]) THEN Out(g, errSplitRank)
    ELSE Out([g EXCEPT
                !.player = Append(@, [cards |-> <<cards[2]>>,
                                      bet |-> g.player[g.handIdx + 1].bet])],
             "nil")

MoveSplit(g) ==
    LET cards == currentHand(g) IN
    IF Len(cards) # 2 THEN Out(g, errSplitLen)
    ELSE IF Rank(cards[1]) # Rank(cards[2]) THEN Out(g, errSplitRank)
    ELSE Out([g EXCEPT
                !.player = Append([@ EXCEPT ![g.handIdx + 1].cards = <<cards[1]>>],
                                  [cards |-> <<cards[2]>>,
                                   bet |-> g.player[g.handIdx + 1].bet])],
             "nil")

MoveDoubleEager(g) ==
    LET g1 == [g EXCEPT !.playerBet = @ * 2] IN
    IF Len(currentHand(g)) # 2 THEN Out(g1, errDouble)
    ELSE LET r == MoveHit(g1) IN
         IF r.err = IndexPanic THEN r ELSE MoveStand(r.g)

MoveDouble(g) ==
    IF Len(currentHand(g)) # 2 THEN Out(g, errDouble)
    ELSE LET r == MoveHit([g EXCEPT !.playerBet = @ * 2]) IN
         IF r.err = IndexPanic THEN r ELSE MoveStand(r.g)

Apply(move, g) ==
    CASE move = "Hit" -> MoveHit(g)
      [] move = "Stand" -> MoveStand(g)
      [] move = "Double" -> MoveDouble(g)
      [] move = "Split" -> MoveSplit(g)

dealerAIStandsOn17(h, dealerCard) ==
    IF Score(h) <= 16 THEN "Hit" ELSE "Stand"

\* dealerAI.Play
dealerAIPlay(h, dealerCard) ==
    LET dScore == Score(h) IN
    IF dScore <= 16 \/ (dScore = 17 /\ Soft(h)) THEN "Hit" ELSE "Stand"

\* where Game.Play continues after a move that did not panic
pcOf(st) ==
    IF st = statePlayerTurn THEN "player"
    ELSE IF st = stateDealerTurn THEN "dealer" ELSE "end"

SetGame(g) ==
    /\ deck' = g.deck
    /\ state' = g.state
    /\ player' = g.player
    /\ handIdx' = g.handIdx
    /\ playerBet' = g.playerBet
    /\ dealer' = g.dealer

----------------------------------------------------------------------------
(* endRound: settlement of every player hand, Results, clearing the hands *)

\* int(float64(w) * payout): truncation toward zero
Trunc(n, d) == IF n >= 0 THEN n \div d ELSE -((-n) \div d)

winningsBustLate(h, d, payout) ==
    LET pScore == Score(h.cards)
        pBlackjack == Blackjack(h.cards)
        dScore == Score(d)
        dBlackjack == Blackjack(d)
    IN  IF pBlackjack /\ dBlackjack THEN 0
        ELSE IF dBlackjack THEN -h.bet
        ELSE IF pBlackjack THEN Trunc(h.bet * payout[1], payout[2])
        ELSE IF dScore > 21 \/ pScore > dScore THEN h.bet
        ELSE IF dScore = pScore THEN 0
        ELSE -h.bet

winnings(h, d, payout) ==
    LET pScore == Score(h.cards)
        pBlackjack == Blackjack(h.cards)
        dScore == Score(d)
        dBlackjack == Blackjack(d)
    IN  IF pBlackjack /\ dBlackjack THEN 0
        ELSE IF dBlackjack \/ pScore > 21 THEN -h.bet
        ELSE IF pBlackjack THEN Trunc(h.bet * payout[1], payout[2])
        ELSE IF dScore > 21 \/ pScore > dScore THEN h.bet
        ELSE IF dScore = pScore THEN 0
        ELSE -h.bet

RECURSIVE settle(_, _, _)
settle(hands, d, payout) ==
    IF hands = <<>> THEN 0
    ELSE winnings(Head(hands), d, payout) + settle(Tail(hands), d, payout)

allHands(hands) == [k \in DOMAIN hands |-> hands[k].cards]

\* the balance ai.Results can observe: it is called after the settlement loop
balanceAtResultsEarly(before, after) == before

balanceAtResults(before, after) == after

endRound ==
    /\ balance' = balance + settle(player, dealer, blackjackPayout)
    /\ calls' = Append(calls,
                  [Call("Results", <<allHands(player), dealer>>, "")
                     EXCEPT !.bal = balanceAtResults(balance, balance')])
    /\ last' = [player |-> player, dealer |-> dealer, before |-> balance,
                deck |-> Len(deck)]
    /\ bi' = aiResults(ai, allHands(player), dealer)
    /\ player' = <<>>
    /\ dealer' = <<>>
    /\ i' = i + 1
    /\ pc' = "loop"

----------------------------------------------------------------------------
(* Game.Play, the rest of a round *)

CheckDealerNever == FALSE

CheckDealer == Blackjack(dealer)

DealerBlackjack ==
    /\ pc = "check"
    /\ IF CheckDealer
       THEN /\ endRound
            /\ UNCHANGED <<deck, state, handIdx, playerBet>>
       ELSE /\ pc' = pcOf(state)
            /\ UNCHANGED <<deck, state, player, handIdx, playerBet, balance,
                           dealer, i, calls, last, bi>>
    /\ UNCHANGED <<nDecks, nHands, blackjackPayout, panicMsg, ai, shuffler, err,
                   roundDeck, drawn, hand, scored>>

PlayerMove ==
    /\ pc = "player"
    /\ \E move \in aiPlay(ai, currentHand(G), dealer[1]) :
          LET r == Apply(move, G)
              g2 == IF r.err = "errBust" THEN MoveStand(r.g).g ELSE r.g
          IN  /\ SetGame(g2)
              /\ err' = r.err
              /\ calls' = Append(calls, Call("Play", <<currentHand(G), dealer[1]>>, move))
              /\ IF r.err \in {"nil", "errBust"}
                 THEN pc' = pcOf(g2.state) /\ panicMsg' = panicMsg
                 ELSE pc' = "panic" /\ panicMsg' = r.err
    /\ drawn' = drawn \o SubSeq(deck, 1, Len(deck) - Len(deck'))
    /\ UNCHANGED <<nDecks, nHands, blackjackPayout, balance, i, ai, shuffler,
                   roundDeck, last, bi, hand, scored>>

DealerMove ==
    /\ pc = "dealer"
    /\ LET r == Apply(dealerAIPlay(dealer, dealer[1]), G) IN
          /\ SetGame(r.g)
          /\ IF r.err = IndexPanic
             THEN pc' = "panic" /\ panicMsg' = IndexPanic
             ELSE pc' = pcOf(r.g.state) /\ panicMsg' = panicMsg
    /\ drawn' = drawn \o SubSeq(deck, 1, Len(deck) - Len(deck'))
    /\ UNCHANGED <<nDecks, nHands, blackjackPayout, balance, i, ai, shuffler,
                   calls, err, roundDeck, last, bi, hand, scored>>

EndRound ==
    /\ pc = "end"
    /\ endRound
    /\ UNCHANGED <<nDecks, nHands, blackjackPayout, deck, state, handIdx,
                   playerBet, panicMsg, ai, shuffler, err, roundDeck, drawn,
                   hand, scored>>

Next == StartRound \/ Deal \/ DealerBlackjack \/ PlayerMove \/ DealerMove
        \/ EndRound \/ Return

Init == InitFamily \/ InitShoe

Spec == Init /\ [][Next]_vars

SpecBasic == InitBasic /\ [][Next]_vars

----------------------------------------------------------------------------
(* The scoring primitives applied to every hand of at most MaxScoreLen     *)
(* cards of one suit and the Ace of a second suit.                         *)

ScoreCards == (1..NumRanks) \cup {CardOf(Ace, 1)}

Evaluate(h) ==
    [minScore |-> minScore(h), Score |-> Score(h), Soft |-> Soft(h),
     Blackjack |-> Blackjack(h)]

InitScore ==
    InitGame([Decks |-> 1, Hands |-> 1, BlackjackPayout |-> <<3, 2>>],
             "free", "family")

ScoreHand ==
    /\ Len(hand) < MaxScoreLen
    /\ \E c \in ScoreCards :
          /\ hand' = Append(hand, c)
          /\ scored' = Evaluate(hand')
    /\ UNCHANGED gameVars

NextScore == ScoreHand

SpecScore == InitScore /\ [][NextScore]_vars

----------------------------------------------------------------------------
(* Helpers of the properties *)

\* the step is one call of ai.Play that returned move m
Played(m) ==
    /\ pc = "player"
    /\ Len(calls') = Len(calls) + 1
    /\ calls'[Len(calls')].op = "Play"
    /\ calls'[Len(calls')].ret = m

\* the step is the top of a round: the reshuffle check and the call of Bet
RoundStarts == pc = "loop" /\ pc' # "done"

Active == player[handIdx + 1]

Ops == [k \in DOMAIN calls |-> calls[k].op]

\* the settlement table of a hand, from the six values alone
Outcome(pScore, pBlackjack, dScore, dBlackjack, b, payout) ==
    CASE pBlackjack /\ dBlackjack -> 0
      [] ~(pBlackjack /\ dBlackjack) /\ (dBlackjack \/ pScore > 21) -> 0 - b
      [] ~dBlackjack /\ pScore <= 21 /\ pBlackjack -> (b * payout[1]) \div payout[2]
      [] ~dBlackjack /\ pScore <= 21 /\ ~pBlackjack
           /\ (dScore > 21 \/ pScore > dScore) -> b
      [] ~dBlackjack /\ pScore <= 21 /\ ~pBlackjack
           /\ dScore <= 21 /\ pScore = dScore -> 0
      [] OTHER -> 0 - b

RECURSIVE SumOutcomes(_, _, _, _)
SumOutcomes(hands, d, payout, k) ==
    IF k = 0 THEN 0
    ELSE SumOutcomes(hands, d, payout, k - 1)
         + Outcome(Score(hands[k].cards), Blackjack(hands[k].cards),
                   Score(d), Blackjack(d), hands[k].bet, payout)

Settled == last.player # <<>>

----------------------------------------------------------------------------
\* C1: after a round is settled, the balance has changed by the sum over the
\* settled hands of the amount the settlement table gives for (player score,
\* player blackjack, dealer score, dealer blackjack, bet, multiplier).
C1_Settlement ==
    Settled =>
        balance = last.before
                  + SumOutcomes(last.player, last.dealer, blackjackPayout,
                                Len(last.player))

\* a player blackjack against a dealer without one, bet 100 at 1.5, paid +150
C1_Witness ==
    /\ Settled
    /\ Len(last.player) = 1
    /\ Blackjack(last.player[1].cards)
    /\ ~Blackjack(last.dealer)
    /\ last.player[1].bet = 100
    /\ blackjackPayout = <<3, 2>>
    /\ balance = last.before + 150

\* C2: a Double on an active hand of exactly 2 cards doubles the bet of that
\* hand, adds exactly one card to it and advances the turn past it.
C2_DoubleDoublesHandBet ==
    [][(Played("Double") /\ Len(Active.cards) = 2) =>
          /\ player'[handIdx + 1].bet = 2 * Active.bet
          /\ Len(player'[handIdx + 1].cards) = 3
          /\ handIdx' = handIdx + 1
          /\ state' = IF handIdx + 1 >= Len(player) THEN stateDealerTurn
                      ELSE statePlayerTurn]_vars

\* C3: a Split on an active hand of 2 cards of one rank succeeds, leaves the
\* active hand its first card, appends a hand of the second card with the
\* same bet, and changes nothing else.
C3_SplitSucceeds ==
    [][(Played("Split") /\ Len(Active.cards) = 2
          /\ Rank(Active.cards[1]) = Rank(Active.cards[2])) =>
          /\ err' = "nil"
          /\ pc' = "player"
          /\ Len(player') = Len(player) + 1
          /\ \A k \in DOMAIN player :
                player'[k] = IF k = handIdx + 1
                             THEN [cards |-> <<Active.cards[1]>>, bet |-> Active.bet]
                             ELSE player[k]
          /\ player'[Len(player')] =
                [cards |-> <<Active.cards[2]>>, bet |-> Active.bet]
          /\ UNCHANGED <<deck, dealer, handIdx, state, balance>>]_vars

\* a Split has just succeeded
C3_Witness ==
    /\ pc = "player"
    /\ err = "nil"
    /\ calls[Len(calls)].op = "Play"
    /\ calls[Len(calls)].ret = "Split"
    /\ Len(player) = 2
    /\ Len(player[1].cards) = 1
    /\ Len(player[2].cards) = 1

\* C4: a Double on a hand that has not exactly 2 cards, and a Split on a hand
\* that has not exactly 2 cards or has 2 cards of different rank, return an
\* error and leave the hands, the bets, the shoe, the index, the round state
\* and the balance as they were.
C4_RejectedMoveChangesNothing ==
    [][((Played("Double") /\ Len(Active.cards) # 2)
        \/ (Played("Split")
              /\ (Len(Active.cards) # 2
                  \/ Rank(Active.cards[1]) # Rank(Active.cards[2])))) =>
          /\ err' \in {errDouble, errSplitLen, errSplitRank}
          /\ UNCHANGED <<player, dealer, playerBet, deck, handIdx, state, balance>>]_vars

\* a Double was rejected on a hand of 3 cards
C4_Witness ==
    /\ pc = "panic"
    /\ panicMsg = errDouble
    /\ Len(Active.cards) = 3

\* C5: a round in which the dealer is dealt a blackjack never reaches the
\* player's or the dealer's turn; it is settled with the calls Bet, Results
\* only, four cards drawn, the state still PlayerTurn, one hand settled, and
\* the balance moved by 0 for a player blackjack and by minus the bet otherwise.
C5_DealerBlackjack ==
    /\ pc \in {"player", "dealer", "end"} => ~Blackjack(SubSeq(dealer, 1, 2))
    /\ (Settled /\ Blackjack(last.dealer)) =>
          /\ Ops = <<"Bet", "Results">>
          /\ roundDeck - last.deck = 4
          /\ state = statePlayerTurn
          /\ Len(last.player) = 1
          /\ balance - last.before =
                IF Blackjack(last.player[1].cards) THEN 0
                ELSE 0 - last.player[1].bet

\* dealer blackjack against a player hand that is none, bet 100: -100
C5_Witness ==
    /\ Settled
    /\ Blackjack(last.dealer)
    /\ ~Blackjack(last.player[1].cards)
    /\ last.player[1].bet = 100
    /\ balance - last.before = -100

\* C6: no draw is ever attempted on an empty shoe.
C6_NoDrawFromEmptyShoe == panicMsg # IndexPanic

\* C7: in every round the calls of the strategy are Bet once, before any card
\* is dealt, then Play only in state PlayerTurn, then Results once, after the
\* settlement is in the balance and before the next Bet; Results is given the
\* final cards of every player hand and the dealer's final hand.
C7_CallOrder ==
    /\ calls = <<>> <=> (pc = "loop" /\ i = 0)
    /\ \A k \in DOMAIN calls :
          /\ calls[k].op = "Bet" <=> k = 1
          /\ calls[k].op = "Play" => calls[k].st = statePlayerTurn
          /\ calls[k].op = "Results" => (k = Len(calls) /\ k > 1 /\ Settled)
    /\ pc = "deal" => (player = <<>> /\ dealer = <<>> /\ Len(deck) = roundDeck
                        /\ Len(calls) = 1)
    /\ (pc \in {"loop", "done"} /\ i > 0) =>
          (Settled /\ calls[Len(calls)].op = "Results")
    /\ Settled =>
          /\ calls[Len(calls)].op = "Results"
          /\ calls[Len(calls)].bal = balance
          /\ calls[Len(calls)].arg =
                <<[k \in DOMAIN last.player |-> last.player[k].cards], last.dealer>>

\* Results was called after a settlement that changed the balance, in a round
\* in which Play was called
C7_Witness ==
    /\ Settled
    /\ balance # last.before
    /\ Len(calls) >= 4
    /\ calls[Len(calls)].op = "Results"

\* C8: at the top of each round the shoe is replaced by a full shoe of
\* 52*decks cards exactly when fewer than 52*decks/3 cards remain, Bet is
\* called with shuffled = true in exactly those rounds, and the first round
\* is one of them.
C8_Reshuffle ==
    [][RoundStarts =>
          LET low == Len(deck) < (52 * nDecks) \div 3 IN
          /\ calls'[1].op = "Bet"
          /\ calls'[1].arg = low
          /\ low => /\ Len(deck') = 52 * nDecks
                    /\ \A c \in Cards : Count(deck', c) = nDecks
          /\ ~low => deck' = deck
          /\ i = 0 => low]_vars

\* a reshuffle in a round that is not the first
C8_Witness ==
    /\ pc = "deal"
    /\ i >= 1
    /\ calls[1].arg = TRUE
    /\ Len(deck) = 52 * nDecks

\* a round that is played without a reshuffle
C8_WitnessNoShuffle ==
    /\ pc = "deal"
    /\ i >= 1
    /\ calls[1].arg = FALSE

\* C9: a Bet below 100 stops the run with the bet panic before any card is
\* dealt, with no hand created, no card drawn, the amount not taken as bet and
\* the balance unchanged; every settled hand has a bet of at least 100.
C9_BetBelowMinimum ==
    /\ [](\A k \in DOMAIN last.player : last.player[k].bet >= 100)
    /\ [][RoundStarts =>
            IF calls'[1].ret < 100
            THEN /\ pc' = "panic"
                 /\ panicMsg' = BetPanic
                 /\ player' = <<>>
                 /\ dealer' = <<>>
                 /\ Len(deck') = IF Len(deck) < (52 * nDecks) \div 3
                                 THEN 52 * nDecks ELSE Len(deck)
                 /\ UNCHANGED <<playerBet, balance>>
            ELSE /\ pc' = "deal"
                 /\ playerBet' = calls'[1].ret]_vars

\* the run stopped on a low bet in a round after the first
C9_Witness ==
    /\ pc = "panic"
    /\ panicMsg = BetPanic
    /\ i >= 1
    /\ calls[1].ret = 99
    /\ playerBet >= 100

\* C10: Score is MinScore or MinScore + 10, never less than MinScore, above
\* 21 exactly when MinScore is, and Soft holds exactly when the two differ.
C10_ScoreBounds ==
    /\ scored.Score \in {scored.minScore, scored.minScore + 10}
    /\ scored.Score >= scored.minScore
    /\ scored.Score > 21 <=> scored.minScore > 21
    /\ scored.Soft <=> scored.Score # scored.minScore

\* a hand of three cards with an Ace counted as 11 for a score of 21
C10_Witness ==
    /\ Len(hand) = 3
    /\ scored.minScore = 11
    /\ scored.Score = 21
    /\ scored.Soft

----------------------------------------------------------------------------
(* Helpers of the turn-order and termination properties *)

IndexValid == 0 <= handIdx /\ handIdx < Len(player)

\* the dealer policy's condition for drawing
DealerDraws == Score(dealer) <= 16 \/ (Score(dealer) = 17 /\ Soft(dealer))

RECURSIVE SumBets(_, _)
SumBets(hands, k) == IF k = 0 THEN 0 ELSE SumBets(hands, k - 1) + hands[k].bet

\* C11, as stated, in the states that follow a settlement: whenever the state
\* is PlayerTurn the active-hand index is below the number of player hands.
C11_IndexValidBetweenRounds ==
    (i >= 1 /\ state = statePlayerTurn) => IndexValid

\* C11, amended: whenever the state is PlayerTurn and the player holds hands
\* (from deal to settlement) the active-hand index is a valid index; when the
\* state is PlayerTurn and the hand list is empty (before the first deal, and
\* after a round settled on a dealer blackjack until the next deal) the index
\* is 0, which is no valid index, and no move is applied in such a state.
C11_IndexValidInRound ==
    /\ (state = statePlayerTurn /\ player # <<>>) => IndexValid
    /\ (state = statePlayerTurn /\ player = <<>>) =>
          (handIdx = 0 /\ pc \in {"loop", "deal", "done", "panic"})
    /\ pc \in {"check", "player"} => (state = statePlayerTurn /\ player # <<>>)

\* the second of two hands is active during the player's turn
C11_Witness ==
    /\ pc = "player"
    /\ state = statePlayerTurn
    /\ Len(player) = 2
    /\ handIdx = 1

\* C12: the round state changes only by deal's reset to PlayerTurn, by a
\* step from PlayerTurn to DealerTurn made by a Stand, a Double or a busting
\* Hit on the last player hand, or by a step from DealerTurn to RoundOver made
\* by the dealer's Stand; deal always leaves the state PlayerTurn.
C12_StateSteps ==
    [][/\ (pc = "deal" /\ pc' = "check") => state' = statePlayerTurn
       /\ state' # state =>
            \/ pc = "deal" /\ state' = statePlayerTurn
            \/ /\ state = statePlayerTurn
               /\ state' = stateDealerTurn
               /\ handIdx + 1 = Len(player)
               /\ handIdx' = Len(player')
               /\ \/ Played("Stand")
                  \/ Played("Double")
                  \/ Played("Hit") /\ err' = "errBust"
            \/ /\ state = stateDealerTurn
               /\ state' = stateHandOver
               /\ pc = "dealer"
               /\ dealerAIPlay(dealer, dealer[1]) = "Stand"
               /\ dealer' = dealer]_vars

\* a round of two hands reached RoundOver after its last hand went bust
C12_Witness ==
    /\ pc = "end"
    /\ state = stateHandOver
    /\ Len(player) = 2
    /\ err = "errBust"

\* C13: a Hit in PlayerTurn that takes the active hand above 21 adds the card
\* to that hand, advances the index (the state becomes DealerTurn on the last
\* hand) and does not stop the run; every call of Play is given a non-empty
\* hand of score at most 21; a settled hand above 21 has kept at least three
\* cards and loses its bet.
C13_BustIsStand ==
    /\ [](\A k \in DOMAIN calls :
             calls[k].op = "Play" =>
                (calls[k].arg[1] # <<>> /\ Score(calls[k].arg[1]) <= 21))
    /\ [](\A k \in DOMAIN last.player :
             Score(last.player[k].cards) > 21 =>
                /\ Len(last.player[k].cards) >= 3
                /\ winnings(last.player[k], last.dealer, blackjackPayout)
                     = 0 - last.player[k].bet)
    /\ []((Settled /\ Len(last.player) = 1 /\ Score(last.player[1].cards) > 21)
             => balance = last.before - last.player[1].bet)
    /\ [][(Played("Hit") /\ CanDraw(deck)
             /\ Score(Append(Active.cards, deck[1])) > 21) =>
            /\ player' = [player EXCEPT ![handIdx + 1].cards = Append(@, deck[1])]
            /\ handIdx' = handIdx + 1
            /\ state' = IF handIdx + 1 >= Len(player) THEN stateDealerTurn
                        ELSE statePlayerTurn
            /\ pc' = pcOf(state')
            /\ err' = "errBust"]_vars

\* the first of two hands went bust on a Hit and the second is now active
C13_Witness ==
    /\ pc = "player"
    /\ err = "errBust"
    /\ Len(player) = 2
    /\ handIdx = 1
    /\ Score(player[1].cards) > 21
    /\ calls[Len(calls)].op = "Play"
    /\ calls[Len(calls)].ret = "Hit"

\* C14: in the dealer's turn the dealer policy draws exactly when the dealer's
\* score is at most 16 or a soft 17 (one card from the front of the shoe, the
\* state unchanged; on an empty shoe the draw is the index panic of C6) and
\* stands otherwise, which ends the turn; every settled dealer hand scores at
\* least 17 and is no soft 17; each draw raises the dealer's minimal score,
\* which never exceeds 26, so the turn ends after finitely many draws.
C14_DealerPolicy ==
    /\ [](Settled => /\ Score(last.dealer) >= 17
                     /\ ~(Score(last.dealer) = 17 /\ Soft(last.dealer)))
    /\ [](minScore(dealer) <= 26)
    /\ [](pc = "dealer" => state = stateDealerTurn)
    /\ [][pc = "dealer" =>
            IF DealerDraws
            THEN IF CanDraw(deck)
                 THEN /\ dealer' = Append(dealer, deck[1])
                      /\ deck' = Tail(deck)
                      /\ state' = stateDealerTurn
                      /\ pc' = "dealer"
                      /\ minScore(dealer') > minScore(dealer)
                 ELSE /\ pc' = "panic"
                      /\ panicMsg' = IndexPanic
                      /\ UNCHANGED <<dealer, deck, state>>
            ELSE /\ state' = stateHandOver
                 /\ pc' = "end"
                 /\ UNCHANGED <<dealer, deck>>]_vars

\* a dealer dealt a soft 17 drew a third card before the settlement
C14_Witness ==
    /\ Settled
    /\ Len(last.dealer) >= 3
    /\ Score(SubSeq(last.dealer, 1, 2)) = 17
    /\ Soft(SubSeq(last.dealer, 1, 2))

\* C15: in the player's turn the active index only stays or moves to the next
\* hand, the list of hands never shrinks, the hands before the active one and
\* the hands waiting after it are not touched, the dealer's two cards are not
\* touched, and the state becomes DealerTurn exactly when the index has passed
\* the last hand: every hand, the halves of every Split included, is active
\* once, in list order.  The dealer's and the settlement's steps find the index
\* past the last hand.  A round in which every hand stayed at 21 or less
\* without a blackjack and beat a dealer without a blackjack adds the bet of
\* each hand to the balance.
C15_SplitHandsInOrder ==
    /\ [](pc = "player" => (state = statePlayerTurn /\ IndexValid /\ Len(dealer) = 2))
    /\ [](pc \in {"dealer", "end"} => handIdx = Len(player))
    /\ []((/\ Settled
           /\ ~Blackjack(last.dealer)
           /\ \A k \in DOMAIN last.player :
                 /\ ~Blackjack(last.player[k].cards)
                 /\ Score(last.player[k].cards) <= 21
                 /\ \/ Score(last.dealer) > 21
                    \/ Score(last.player[k].cards) > Score(last.dealer))
             => balance = last.before + SumBets(last.player, Len(last.player)))
    /\ [][pc = "player" =>
            /\ handIdx' \in {handIdx, handIdx + 1}
            /\ Len(player') >= Len(player)
            /\ \A k \in DOMAIN player : k # handIdx + 1 => player'[k] = player[k]
            /\ dealer' = dealer
            /\ state' = stateDealerTurn <=> handIdx' = Len(player')
            /\ state' = statePlayerTurn <=> handIdx' < Len(player')]_vars

\* two hands of a split pair of eights, each with one more card and neither
\* above 21, both beat a dealer without a blackjack: twice the bet is won
C15_Witness ==
    /\ Settled
    /\ Len(last.player) = 2
    /\ \A k \in 1..2 : /\ Len(last.player[k].cards) = 2
                       /\ Rank(last.player[k].cards[1]) = 8
                       /\ Score(last.player[k].cards) <= 21
                       /\ Score(last.player[k].cards) > Score(last.dealer)
                       /\ last.player[k].bet = 100
    /\ ~Blackjack(last.dealer)
    /\ balance = last.before + 200

\* the moves the player's turn has left: 4 for every card in the shoe, 2 for
\* every hand not yet stood that holds exactly two cards, 1 for every hand not
\* yet stood
TurnRank ==
    4 * Len(deck)
    + 2 * Cardinality({k \in DOMAIN player :
                          k > handIdx /\ Len(player[k].cards) = 2})
    + (Len(player) - handIdx)

\* an upper bound of the steps of one round
RoundSpan == 7 * 52 * nDecks + 40

\* the steps the run has left, at most
Measure ==
    CASE pc \in {"done", "panic"} -> 0
      [] pc = "loop" -> (nHands - i) * RoundSpan + RoundSpan - 1
      [] pc = "deal" -> (nHands - i) * RoundSpan + RoundSpan - 2
      [] pc = "check" -> (nHands - i) * RoundSpan + RoundSpan - 3
      [] pc = "player" -> (nHands - i) * RoundSpan + 30 + TurnRank
      [] pc = "dealer" -> (nHands - i) * RoundSpan + 2 + (26 - minScore(dealer))
      [] pc = "end" -> (nHands - i) * RoundSpan + 1

\* C16: a run always ends.  Every step of the run lowers a natural-number
\* measure (so no Hit, Split or Double keeps a turn going), the round counter
\* never passes N and counts the settlements, and the run is always at a step
\* of Game.Play whose hand exists, at the return, reached after exactly N
\* settlements, or at the fatal failure.
C16_RunEnds ==
    /\ [](Measure >= 0)
    /\ [](i <= nHands)
    /\ [](pc = "done" => i = nHands)
    /\ [](pc = "player" => 30 + TurnRank < RoundSpan - 3)
    /\ [](/\ pc \in {"loop", "deal", "check", "player", "dealer", "end",
                     "done", "panic"}
          /\ pc = "player" => (IndexValid /\ dealer # <<>>)
          /\ pc = "dealer" => dealer # <<>>)
    /\ [][/\ Measure' < Measure
          /\ i' \in {i, i + 1}
          /\ i' = i + 1 <=> (last' # NoRound /\ last = NoRound)]_vars

\* the run returned after N rounds in which the balance moved
C16_Witness ==
    /\ pc = "done"
    /\ i = nHands
    /\ Settled
    /\ balance # 0

----------------------------------------------------------------------------
(* Helpers of the properties of basicAI and of the cards *)

RECURSIVE Concat(_)
Concat(hands) == IF hands = <<>> THEN <<>> ELSE Head(hands) \o Concat(Tail(hands))

\* the same cards, each as many times
SameCards(a, b) ==
    /\ Len(a) = Len(b)
    /\ \A k \in DOMAIN a : Count(a, a[k]) = Count(b, a[k])

RejectedMove == {errSplitLen, errSplitRank, errDouble, errState}

\* C17: every move basicAI.Play returns is legal where it is returned: Play is
\* called in PlayerTurn, Double is returned only for a hand of 2 cards, Split
\* only for a hand of 2 cards of one rank, no move of basicAI returns an error
\* other than the bust of a Hit, and the run never stops on a rejected move.
C17_BasicMovesLegal ==
    /\ \A k \in DOMAIN calls :
          calls[k].op = "Play" =>
             /\ calls[k].st = statePlayerTurn
             /\ calls[k].ret = basicPlay(calls[k].arg[1], calls[k].arg[2])
             /\ calls[k].ret = "Double" => Len(calls[k].arg[1]) = 2
             /\ calls[k].ret = "Split" =>
                   /\ Len(calls[k].arg[1]) = 2
                   /\ Rank(calls[k].arg[1][1]) = Rank(calls[k].arg[1][2])
    /\ err \in {"nil", "errBust"}
    /\ panicMsg \notin RejectedMove

\* basicAI has just split a pair of two equal cards
C17_Witness ==
    /\ ai = "basic"
    /\ pc = "player"
    /\ Len(calls) >= 2
    /\ calls[Len(calls)].op = "Play"
    /\ calls[Len(calls)].ret = "Split"
    /\ calls[Len(calls)].arg[1][1] = calls[Len(calls)].arg[1][2]
    /\ Len(player) >= 2
    /\ err = "nil"

\* C18: in the shipped configuration basicAI counts the shoe.  At every call
\* of Bet, after its reset, seen is the number of cards taken from the shoe
\* since the last shuffle, the divisor (decks*52 - seen)/52 is at least 1, Bet
\* returns 100, 5000 or 100000, and the game takes it as the bet; the run never
\* stops on the division or on a low bet.
C18_CountMatchesShoe ==
    /\ [](bi.decks = nDecks /\ nDecks = 4)
    /\ []((pc = "deal" \/ (pc \in {"loop", "done"} /\ i >= 1)) =>
             bi.seen = 52 * nDecks - Len(deck))
    /\ [](panicMsg \notin {DividePanic, BetPanic})
    /\ [][RoundStarts =>
            /\ bi'.seen = 52 * nDecks - Len(deck')
            /\ bi'.seen = IF calls'[1].arg THEN 0 ELSE bi.seen
            /\ (bi'.decks * 52 - bi'.seen) \div 52 >= 1
            /\ calls'[1].ret \in {100, 5000, 100000}
            /\ playerBet' = calls'[1].ret
            /\ pc' = "deal"]_vars

\* Bet was called on a shoe not shuffled for this round, with more than a
\* deck seen, and returned more than the minimum
C18_Witness ==
    /\ ai = "basic"
    /\ pc = "deal"
    /\ calls[1].arg = FALSE
    /\ bi.seen > 52
    /\ bi.seen = 52 * nDecks - Len(deck)
    /\ playerBet \in {5000, 100000}

\* C19: while the player holds hands, the cards of all player hands and of
\* the dealer's hand are the cards taken from the shoe in this round, each as
\* often as it was taken, and every player hand holds a card; the cards given
\* to Results are the cards taken in the round; within a round cards leave the
\* shoe only at its front, into the cards taken.
C19_CardsConserved ==
    /\ [](player # <<>> =>
             /\ SameCards(Concat(allHands(player)) \o dealer, drawn)
             /\ \A k \in DOMAIN player : Len(player[k].cards) >= 1
             /\ Len(drawn) + Len(deck) = roundDeck)
    /\ [](Settled =>
             /\ calls[Len(calls)].op = "Results"
             /\ SameCards(Concat(calls[Len(calls)].arg[1])
                            \o calls[Len(calls)].arg[2], drawn)
             /\ \A k \in DOMAIN last.player : Len(last.player[k].cards) >= 1
             /\ Len(drawn) + Len(deck) = roundDeck)
    /\ [][~RoundStarts => drawn' \o deck' = drawn \o deck]_vars

\* both halves of a split pair were hit and the round was settled with the
\* six cards taken from the shoe
C19_Witness ==
    /\ Settled
    /\ Len(last.player) = 2
    /\ Len(last.player[1].cards) >= 2
    /\ Len(last.player[2].cards) >= 2
    /\ Len(drawn) >= 6
    /\ Len(drawn) = Len(Concat(allHands(last.player))) + Len(last.dealer)

====
